---- MODULE Spec2Model ----
(***************************************************************************)
(* Model of backend/app.py: the two request handlers of the review API,    *)
(* create_review (POST /api/reviews) and upload_image                      *)
(* (POST /api/upload/image), with the request validation of ReviewCreate,  *)
(* the MongoDB reviews collection and the S3 bucket they write to.         *)
(*                                                                         *)
(* Ratings are exact decimals counted in hundredths (4.3 is 430).  Strings *)
(* that the code takes apart (file names) are sequences of characters.     *)
(* Python's None is the empty tuple, and an optional value v is <<v>>.     *)
(***************************************************************************)
EXTENDS Integers, Sequences, FiniteSets, TLC

VARIABLES
    s3_client,      \* TRUE iff boto3.client was constructed at import time
    uuids,          \* number of uuid.uuid4() values handed out so far
    calls,          \* number of HTTP requests the server has received; the
                    \* wall clock (datetime.utcnow()) reads the arrival
                    \* number of the request that asks
    reviews,        \* the documents of db[REVIEWS_COL]
    review_reqs,    \* the POST /api/reviews requests, by request number
    s3_objects,     \* the objects of the S3 bucket
    upload          \* the latest upload_image invocation

vars == <<s3_client, uuids, calls, reviews, review_reqs, s3_objects, upload>>

None == << >>

-----------------------------------------------------------------------------
(* Bounds of the model *)

MaxCalls == 2       \* requests received in one behaviour

-----------------------------------------------------------------------------
(* Configuration *)

REVIEWS_COL == "reviews"
AWS_S3_REGION == "ap-northeast-2"
AWS_S3_BUCKET_NAME == "bucket"

-----------------------------------------------------------------------------
(* ReviewCreate: the request model of POST /api/reviews *)

RatingGe == 50      \* Field(ge=0.5), in hundredths
RatingLe == 500     \* Field(le=5), in hundredths
ContentMaxLength == 2000

\* Python 3 round(n / d) for d > 0: to the nearest integer, ties to the even one.
PyRound(n, d) ==
    LET q == n \div d
        r == n % d
    IN  IF 2 * r < d THEN q
        ELSE IF 2 * r > d THEN q + 1
        ELSE IF q % 2 = 0 THEN q ELSE q + 1

\* validate_rating with int() in place of round(): int(v * 2) / 2.
validate_rating_truncating(v) == (((v * 2) \div 100) * 100) \div 2

\* round(v * 2) / 2 on a rating v given in hundredths; the result in hundredths.
validate_rating(v) == (PyRound(v * 2, 100) * 100) \div 2

\* FieldErrors without min_length=1 on product_id.
FieldErrors_without_min_length(body) ==
    (IF body.productId = None THEN {"productId"} ELSE {})
    \cup (IF body.rating = None \/ body.rating[1] < RatingGe \/ body.rating[1] > RatingLe
          THEN {"rating"} ELSE {})
    \cup (IF body.userName = None \/ Len(body.userName[1]) < 1 THEN {"userName"} ELSE {})
    \cup (IF body.content # None /\ body.content[1] > ContentMaxLength
          THEN {"content"} ELSE {})

\* The Field(...) constraints of ReviewCreate on a JSON body.  A body is a
\* record of optional values (a missing or null key is None); content is given
\* by its length.  The result is the set of fields in error.
FieldErrors(body) ==
    (IF body.productId = None \/ Len(body.productId[1]) < 1 THEN {"productId"} ELSE {})
    \cup (IF body.rating = None \/ body.rating[1] < RatingGe \/ body.rating[1] > RatingLe
          THEN {"rating"} ELSE {})
    \cup (IF body.userName = None \/ Len(body.userName[1]) < 1 THEN {"userName"} ELSE {})
    \cup (IF body.content # None /\ body.content[1] > ContentMaxLength
          THEN {"content"} ELSE {})

\* The validated model: the field validator runs after the constraints.
ReviewCreate(body) ==
    [product_id |-> body.productId[1],
     rating     |-> validate_rating(body.rating[1]),
     user_name  |-> body.userName[1],
     content    |-> body.content,
     images     |-> body.images]

-----------------------------------------------------------------------------
(* create_review *)

\* uuid4 returning the same value on every call.
uuid4_repeating(n) == <<"uuid", 1>>

uuid4(n) == <<"uuid", n>>

\* The document create_review builds from the validated model.
new_review(review, review_id, now) ==
    [reviewId     |-> review_id,
     productId    |-> review.product_id,
     userId       |-> None,
     userName     |-> review.user_name,
     rating       |-> review.rating,
     content      |-> IF review.content = None THEN 0 ELSE review.content[1],
     images       |-> IF review.images = None THEN << >> ELSE review.images[1],
     createdAt    |-> now,
     updatedAt    |-> now,
     helpful      |-> 0,
     helpfulUsers |-> << >>,
     status       |-> "active"]

ReviewResponse(success, review_id, message) ==
    [status |-> 200,
     body |-> [success |-> success, reviewId |-> review_id, message |-> message]]

\* What create_review returns once insert_one has returned `result`.
create_review_return(result, review_id) ==
    IF result.inserted_id # None
    THEN ReviewResponse(TRUE, review_id, "review registered")
    ELSE ReviewResponse(FALSE, None, "failed to save review")

\* The framework's answer to a body that fails ReviewCreate: the handler is
\* not called.
RequestValidationError(errors) ==
    [status |-> 422, body |-> [detail |-> errors]]

\* The framework's answer to an exception that leaves a handler.
InternalServerError ==
    [status |-> 500, body |-> [error |-> "Internal Server Error"]]

Body(p, r, u, c, i) ==
    [productId |-> p, rating |-> r, userName |-> u, content |-> c, images |-> i]

\* Ratings submitted, in hundredths: below the range, its ends, ties between
\* two multiples of 0.5 (0.75, 1.25), a value off the grid, above the range.
RatingInputs == {49, 50, 75, 125, 430, 500, 501}

ReviewBodies ==
    { Body(<<"p1">>, <<r>>, <<"alice">>, None, None) : r \in RatingInputs }
    \cup { Body(<<"p2">>, <<430>>, <<"bob">>, <<ContentMaxLength>>, << <<"img">> >>),
           Body(<<"">>, <<430>>, <<"alice">>, None, None),
           Body(None, <<430>>, <<"alice">>, None, None),
           Body(<<"p1">>, <<430>>, <<"">>, None, None),
           Body(<<"p1">>, <<430>>, <<"alice">>, <<ContentMaxLength + 1>>, None),
           Body(<<"">>, <<501>>, <<"">>, <<ContentMaxLength + 1>>, None) }

\* The outcomes of the awaited db[REVIEWS_COL].insert_one(doc): the document
\* is stored and the result carries its id, the result carries no id, or the
\* driver raises (server unreachable, write error).
InsertOutcomes == {"inserted", "no_inserted_id", "raises"}

\* POST /api/reviews arrives.  A body that fails validation is answered by the
\* framework; otherwise create_review runs up to its await.
PostReview(body) ==
    /\ calls < MaxCalls
    /\ calls' = calls + 1
    /\ LET h == calls + 1
           errors == FieldErrors(body)
       IN  IF errors # {}
           THEN /\ review_reqs' = review_reqs @@
                      (h :> [pc |-> "done", body |-> body, called |-> FALSE,
                             review_id |-> None, doc |-> None, result |-> None,
                             error |-> None, inserts |-> 0, raised |-> None,
                             resp |-> RequestValidationError(errors)])
                /\ UNCHANGED uuids
           ELSE LET review_id == uuid4(uuids + 1)
                    now == calls + 1
                IN  /\ uuids' = uuids + 1
                    /\ review_reqs' = review_reqs @@
                          (h :> [pc |-> "insert_one", body |-> body, called |-> TRUE,
                                 review_id |-> review_id,
                                 doc |-> new_review(ReviewCreate(body), review_id, now),
                                 result |-> None, error |-> None, inserts |-> 0,
                                 raised |-> None, resp |-> None])
    /\ UNCHANGED <<s3_client, reviews, s3_objects, upload>>

\* The database answers the insert of request h.  The driver adds _id to the
\* document it stores; h stands for the ObjectId generated for this call.
insert_one(h) ==
    /\ h \in DOMAIN review_reqs
    /\ review_reqs[h].pc = "insert_one"
    /\ \E outcome \in InsertOutcomes :
         /\ reviews' = IF outcome = "inserted"
                       THEN reviews \cup {[_id |-> h] @@ review_reqs[h].doc}
                       ELSE reviews
         /\ review_reqs' = [review_reqs EXCEPT
                ![h].pc = "resume",
                ![h].inserts = @ + 1,
                ![h].result =
                    CASE outcome = "inserted" -> [inserted_id |-> <<h>>]
                      [] outcome = "no_inserted_id" -> [inserted_id |-> None]
                      [] outcome = "raises" -> None,
                ![h].error = IF outcome = "raises" THEN <<"PyMongoError">> ELSE None]
    /\ UNCHANGED <<s3_client, uuids, calls, s3_objects, upload>>

\* create_review resumes after the await.  The await is in no try block: an
\* exception of insert_one leaves the handler (raised) and the framework
\* answers for it.
create_review_resume(h) ==
    /\ h \in DOMAIN review_reqs
    /\ review_reqs[h].pc = "resume"
    /\ review_reqs' = [review_reqs EXCEPT
           ![h].pc = "done",
           ![h].raised = review_reqs[h].error,
           ![h].resp = IF review_reqs[h].error # None
                       THEN InternalServerError
                       ELSE create_review_return(review_reqs[h].result,
                                                 review_reqs[h].review_id)]
    /\ UNCHANGED <<s3_client, uuids, calls, reviews, s3_objects, upload>>

-----------------------------------------------------------------------------
(* upload_image *)

MaxBytes == 10485760    \* 10 * 1024 * 1024

UpperCase == <<"A","B","C","D","E","F","G","H","I","J","K","L","M",
               "N","O","P","Q","R","S","T","U","V","W","X","Y","Z">>
LowerCase == <<"a","b","c","d","e","f","g","h","i","j","k","l","m",
               "n","o","p","q","r","s","t","u","v","w","x","y","z">>

\* str.lower() on a sequence of characters.
lower(str) ==
    [i \in 1..Len(str) |->
        IF \E k \in 1..Len(UpperCase) : UpperCase[k] = str[i]
        THEN LowerCase[CHOOSE k \in 1..Len(UpperCase) : UpperCase[k] = str[i]]
        ELSE str[i]]

\* str.rfind(c), 1-based; 0 when c does not occur.
rfind(str, c) ==
    IF \E i \in 1..Len(str) : str[i] = c
    THEN CHOOSE i \in 1..Len(str) :
            str[i] = c /\ \A j \in (i + 1)..Len(str) : str[j] # c
    ELSE 0

\* os.path.splitext(p)[1]: the text from the last dot of the last path
\* component on, unless only dots precede that dot in the component.
splitext_ext(p) ==
    LET sepIndex == rfind(p, "/")
        dotIndex == rfind(p, ".")
    IN  IF dotIndex > sepIndex
           /\ \E i \in (sepIndex + 1)..(dotIndex - 1) : p[i] # "."
        THEN SubSeq(p, dotIndex, Len(p))
        ELSE << >>

allowed_extensions ==
    { <<".", "j", "p", "g">>, <<".", "j", "p", "e", "g">>, <<".", "p", "n", "g">>,
      <<".", "g", "i", "f">>, <<".", "w", "e", "b", "p">> }

\* upload_check with the product_id check ahead of the s3_client check.
upload_check_product_id_first(configured, product_id, file_ext, size) ==
    IF product_id = "" THEN "no_product_id"
    ELSE IF ~configured THEN "no_s3"
    ELSE IF file_ext \notin
            { <<".", "j", "p", "g">>, <<".", "j", "p", "e", "g">>, <<".", "p", "n", "g">>,
              <<".", "g", "i", "f">>, <<".", "w", "e", "b", "p">> }
    THEN "bad_extension"
    ELSE IF size > MaxBytes THEN "too_large"
    ELSE "put"

\* upload_check without the product_id check.
upload_check_without_product_id(configured, product_id, file_ext, size) ==
    IF ~configured THEN "no_s3"
    ELSE IF file_ext \notin
            { <<".", "j", "p", "g">>, <<".", "j", "p", "e", "g">>, <<".", "p", "n", "g">>,
              <<".", "g", "i", "f">>, <<".", "w", "e", "b", "p">> }
    THEN "bad_extension"
    ELSE IF size > MaxBytes THEN "too_large"
    ELSE "put"

\* upload_check with the size check ahead of the extension check.
upload_check_size_first(configured, product_id, file_ext, size) ==
    IF ~configured THEN "no_s3"
    ELSE IF product_id = "" THEN "no_product_id"
    ELSE IF size > MaxBytes THEN "too_large"
    ELSE IF file_ext \notin
            { <<".", "j", "p", "g">>, <<".", "j", "p", "e", "g">>, <<".", "p", "n", "g">>,
              <<".", "g", "i", "f">>, <<".", "w", "e", "b", "p">> }
    THEN "bad_extension"
    ELSE "put"

\* The handler's checks, in the order of the code.  The result names the check
\* that ends the call, or "put" when the call goes on to put_object.
upload_check(configured, product_id, file_ext, size) ==
    IF ~configured THEN "no_s3"
    ELSE IF product_id = "" THEN "no_product_id"
    ELSE IF file_ext \notin allowed_extensions THEN "bad_extension"
    ELSE IF size > MaxBytes THEN "too_large"
    ELSE "put"

\* s3_key that always takes the branch without the product identifier.
s3_key_unscoped(product_id, uuid, file_ext) == <<"reviews/", uuid, file_ext>>

\* f"reviews/{product_id}/{file_name}" with file_name = f"{uuid.uuid4()}{file_ext}"
s3_key(product_id, uuid, file_ext) ==
    IF product_id # ""
    THEN <<"reviews/", product_id, "/", uuid, file_ext>>
    ELSE <<"reviews/", uuid, file_ext>>

\* f"https://{AWS_S3_BUCKET_NAME}.s3.{AWS_S3_REGION}.amazonaws.com/{s3_key}"
public_url(key) ==
    <<"https://", AWS_S3_BUCKET_NAME, ".s3.", AWS_S3_REGION, ".amazonaws.com/", key>>

HTTPException(status_code, detail) ==
    [status |-> status_code, body |-> [detail |-> detail]]

ImageUploadResponse(success, url, message) ==
    [status |-> 200, body |-> [success |-> success, url |-> url, message |-> message]]

\* upload_rejection raising HTTPException(400) for a disallowed extension.
upload_rejection_raising(check) ==
    CASE check = "no_s3" -> [status |-> 500, body |-> [detail |-> "S3 is not configured"]]
      [] check = "no_product_id" ->
            [status |-> 200,
             body |-> [success |-> FALSE, url |-> None,
                       message |-> <<"product id is required">>]]
      [] check = "bad_extension" ->
            [status |-> 400, body |-> [detail |-> "file format not allowed"]]
      [] check = "too_large" ->
            [status |-> 200,
             body |-> [success |-> FALSE, url |-> None,
                       message |-> <<"file size must be 10MB or less">>]]

\* The response of a call that a check ends.
upload_rejection(check) ==
    CASE check = "no_s3" -> HTTPException(500, "S3 is not configured")
      [] check = "no_product_id" ->
            ImageUploadResponse(FALSE, None, <<"product id is required">>)
      [] check = "bad_extension" ->
            ImageUploadResponse(FALSE, None,
                                <<"file format not allowed", allowed_extensions>>)
      [] check = "too_large" ->
            ImageUploadResponse(FALSE, None, <<"file size must be 10MB or less">>)

\* upload_put_response without the except clause: the exception of put_object
\* leaves the handler.
upload_put_response_uncaught(put_error, key) ==
    IF put_error = None
    THEN [status |-> 200,
          body |-> [success |-> TRUE,
                    url |-> << <<"https://", AWS_S3_BUCKET_NAME, ".s3.", AWS_S3_REGION,
                                 ".amazonaws.com/", key>> >>,
                    message |-> <<"upload complete">>]]
    ELSE [status |-> 500, body |-> [error |-> "Internal Server Error"]]

\* The response of a call that reached put_object.
upload_put_response(put_error, key) ==
    IF put_error = None
    THEN ImageUploadResponse(TRUE, <<public_url(key)>>, <<"upload complete">>)
    ELSE ImageUploadResponse(FALSE, None, <<"upload failed: ", put_error[1]>>)

FileNames ==
    { <<"a", ".", "j", "p", "g">>,
      <<"A", ".", "J", "P", "G">>,
      <<"d", ".", "t", "a", "r", ".", "P", "n", "g">>,
      <<"b", ".", "b", "m", "p">>,
      <<".", "p", "n", "g">>,
      <<"g", "i", "f">> }

FileSizes == {9 * 1024 * 1024, MaxBytes, MaxBytes + 1}

ProductIds == {"", "p1"}

\* file.content_type: absent ("" here, falsy like None) or declared.
ContentTypes == {"", "image/png"}

\* What s3_client.put_object can raise.
PutErrors == {<<"AccessDenied">>, <<"EndpointConnectionError">>}

\* POST /api/upload/image: the whole handler.  put_error is what put_object
\* does when the call reaches it: None when it stores the object.
upload_image(filename, content_type, size, product_id) ==
    /\ calls < MaxCalls
    /\ calls' = calls + 1
    /\ LET file_ext == lower(splitext_ext(filename))
           check == upload_check(s3_client, product_id, file_ext, size)
           uuid == uuid4(uuids + 1)
           key == s3_key(product_id, uuid, file_ext)
           request == [filename |-> filename, size |-> size,
                       product_id |-> product_id]
       IN  IF check # "put"
           THEN /\ upload' = [request |-> request, puts |-> 0, put_error |-> None,
                              key |-> None, resp |-> upload_rejection(check)]
                /\ UNCHANGED <<uuids, s3_objects>>
           ELSE \E put_error \in {None} \cup PutErrors :
                /\ uuids' = uuids + 1
                /\ s3_objects' =
                      IF put_error = None
                      THEN s3_objects \cup
                             {[Bucket |-> AWS_S3_BUCKET_NAME, Key |-> key, Body |-> size,
                               ContentType |-> IF content_type # "" THEN content_type
                                               ELSE "image/jpeg"]}
                      ELSE s3_objects
                /\ upload' = [request |-> request, puts |-> 1,
                              put_error |-> put_error, key |-> <<key>>,
                              resp |-> upload_put_response(put_error, key)]
    /\ UNCHANGED <<s3_client, reviews, review_reqs>>

-----------------------------------------------------------------------------
(* The server *)

\* The state after import and startup: s3_client exists iff both AWS
\* credentials are set; nothing has been requested yet.
Init ==
    /\ s3_client \in BOOLEAN
    /\ uuids = 0
    /\ calls = 0
    /\ reviews = {}
    /\ review_reqs = << >>
    /\ s3_objects = {}
    /\ upload = None

Next ==
    \/ \E body \in ReviewBodies : PostReview(body)
    \/ \E h \in 1..MaxCalls : insert_one(h)
    \/ \E h \in 1..MaxCalls : create_review_resume(h)
    \/ \E filename \in FileNames, content_type \in ContentTypes, size \in FileSizes,
          product_id \in ProductIds :
            upload_image(filename, content_type, size, product_id)

Spec == Init /\ [][Next]_vars

\* The two endpoints on their own.
NextReviews ==
    \/ \E body \in ReviewBodies : PostReview(body)
    \/ \E h \in 1..MaxCalls : insert_one(h)
    \/ \E h \in 1..MaxCalls : create_review_resume(h)

SpecReviews == Init /\ [][NextReviews]_vars

NextUploads ==
    \E filename \in FileNames, content_type \in ContentTypes, size \in FileSizes,
       product_id \in ProductIds :
         upload_image(filename, content_type, size, product_id)

SpecUploads == Init /\ [][NextUploads]_vars

-----------------------------------------------------------------------------
(* Properties of create_review *)

\* The requests create_review ran for, and the documents each one stored.
Called == {h \in DOMAIN review_reqs : review_reqs[h].called}
Answered == {h \in DOMAIN review_reqs : review_reqs[h].pc = "done"}
StoredBy(h) == {d \in reviews : d._id = h}
HalfSteps == {50 * k : k \in 1..10}
Distance(a, b) == IF a >= b THEN a - b ELSE b - a

\* C1: for every review create_review accepts, the rating of the document it
\* builds and of every document in the collection is a multiple of 0.5 within
\* [0.5, 5.0] and differs from the submitted rating by at most 0.25.
C1_RatingQuantized ==
    /\ \A h \in Called :
         /\ review_reqs[h].body.rating[1] \in RatingGe..RatingLe
         /\ review_reqs[h].doc.rating \in HalfSteps
         /\ Distance(review_reqs[h].doc.rating, review_reqs[h].body.rating[1]) <= 25
    /\ \A d \in reviews :
         /\ d.rating \in HalfSteps
         /\ d._id \in Called
         /\ d.rating = review_reqs[d._id].doc.rating

\* C1 witness: a submitted 4.3 is in the collection as 4.5, next to a tie (0.75
\* or 1.25) stored as 1.0.
C1_Witness ==
    /\ \E d \in reviews : review_reqs[d._id].body.rating = <<430>> /\ d.rating = 450
    /\ \E d \in reviews : review_reqs[d._id].body.rating[1] \in {75, 125} /\ d.rating = 100

\* C2: an answered create_review call whose insert did not persist the document
\* got HTTP 200 with success=false and a message, and no exception left the
\* handler.
C2_InsertFailureReported ==
    \A h \in Called \cap Answered :
        StoredBy(h) = {} =>
            /\ review_reqs[h].raised = None
            /\ review_reqs[h].resp.status = 200
            /\ "success" \in DOMAIN review_reqs[h].resp.body
            /\ review_reqs[h].resp.body.success = FALSE
            /\ review_reqs[h].resp.body.message # ""

\* A body with an empty productId, an empty userName, a rating outside
\* [0.5, 5] or content longer than 2000 characters.
BadBody(body) ==
    \/ body.productId = <<"">>
    \/ body.userName = <<"">>
    \/ (body.rating # None /\ (body.rating[1] < 50 \/ body.rating[1] > 500))
    \/ (body.content # None /\ body.content[1] > 2000)

\* C3: a submission with an empty productId, an empty userName, a rating out
\* of range or over-long content is rejected before create_review runs: the
\* step that receives it leaves the collection unchanged, and the request
\* never inserts.
C3_RejectedBeforeWrite ==
    [][\A h \in DOMAIN review_reqs' :
          BadBody(review_reqs'[h].body) =>
            /\ ~review_reqs'[h].called
            /\ review_reqs'[h].pc = "done"
            /\ review_reqs'[h].inserts = 0
            /\ review_reqs'[h].resp.status = 422
            /\ {d \in reviews' : d._id = h} = {}
            /\ (h \notin DOMAIN review_reqs => reviews' = reviews)]_vars

\* C3 witness: a submission with an empty productId was rejected while the
\* collection held a document of an earlier request.
C3_Witness ==
    \E h \in DOMAIN review_reqs :
        /\ review_reqs[h].body.productId = <<"">>
        /\ review_reqs[h].resp # None
        /\ review_reqs[h].resp.status = 422
        /\ \E d \in reviews : d._id < h

\* C10: under every interleaving each request inserts at most once, a request
\* answered success=true got a reviewId that names exactly one stored document,
\* which carries that request's productId, userName and rounded rating with the
\* initial helpfulness, status and timestamps, and no two stored documents
\* share a reviewId.
C10_IndependentRequests ==
    /\ \A h \in DOMAIN review_reqs : review_reqs[h].inserts <= 1
    /\ \A h \in Answered :
         ("success" \in DOMAIN review_reqs[h].resp.body
            /\ review_reqs[h].resp.body.success) =>
            LET rid == review_reqs[h].resp.body.reviewId
                docs == {d \in reviews : d.reviewId = rid}
            IN  /\ rid # None
                /\ Cardinality(docs) = 1
                /\ \A d \in docs :
                     /\ d._id = h
                     /\ d.productId = review_reqs[h].body.productId[1]
                     /\ d.userName = review_reqs[h].body.userName[1]
                     /\ d.rating \in HalfSteps
                     /\ Distance(d.rating, review_reqs[h].body.rating[1]) <= 25
                     /\ d.helpful = 0
                     /\ d.helpfulUsers = << >>
                     /\ d.status = "active"
                     /\ d.createdAt = d.updatedAt
    /\ \A d1, d2 \in reviews : d1.reviewId = d2.reviewId => d1 = d2

\* C10 witness: two requests for different products were in flight together
\* (the later one arrived before the earlier one was answered, as their
\* timestamps and the pending answer show), both stored, one answered
\* success=true.
C10_Witness ==
    \E h1, h2 \in Called :
        /\ h1 < h2
        /\ review_reqs[h1].pc = "resume"
        /\ review_reqs[h2].pc = "done"
        /\ review_reqs[h2].resp.status = 200
        /\ review_reqs[h2].resp.body.success = TRUE
        /\ StoredBy(h1) # {} /\ StoredBy(h2) # {}
        /\ review_reqs[h1].doc.productId # review_reqs[h2].doc.productId

-----------------------------------------------------------------------------
(* Properties of upload_image *)

ConfigurationError == [status |-> 500, body |-> [detail |-> "S3 is not configured"]]

\* The latest call was answered 200 with success=false and a message.
UploadRefused ==
    /\ upload.resp.status = 200
    /\ upload.resp.body.success = FALSE
    /\ upload.resp.body.url = None
    /\ upload.resp.body.message # << >>

\* The extension the handler compares, and the two file checks on it.
UploadExt == lower(splitext_ext(upload.request.filename))
ExtAllowed == UploadExt \in allowed_extensions
SizeAllowed == upload.request.size <= 10 * 1024 * 1024
FormatError == <<"file format not allowed", allowed_extensions>>
SizeError == <<"file size must be 10MB or less">>

\* C5: without an S3 client every upload_image call gets the configuration
\* error, an HTTP 500, whatever its product identifier, file name and size, and
\* the bucket is never written.
C5_NoStorageConfigured ==
    (upload # None /\ ~s3_client) =>
        /\ upload.resp = ConfigurationError
        /\ upload.puts = 0
        /\ s3_objects = {}

\* C5 witness: without an S3 client, a call that passes every other check
\* (product identifier, allowed extension, size within the limit) was refused.
C5_Witness ==
    /\ upload # None
    /\ ~s3_client
    /\ upload.request.product_id = "p1"
    /\ upload.request.filename = <<"a", ".", "j", "p", "g">>
    /\ upload.request.size = 9 * 1024 * 1024
    /\ upload.resp.status = 500

\* C6 as claimed: every call with an empty product identifier is answered
\* success=false without a storage write, whatever the storage configuration.
C6_EmptyProductIdRefused ==
    (upload # None /\ upload.request.product_id = "") =>
        /\ upload.puts = 0
        /\ "success" \in DOMAIN upload.resp.body
        /\ upload.resp.body.success = FALSE

\* C6 as amended: a call with an empty product identifier never writes to
\* storage; with an S3 client it is answered success=false with the
\* product-identifier message, without one it gets the configuration error.
C6_EmptyProductIdNoWrite ==
    (upload # None /\ upload.request.product_id = "") =>
        /\ upload.puts = 0
        /\ upload.key = None
        /\ \A o \in s3_objects : o.Key[2] # ""
        /\ s3_client =>
              (UploadRefused /\ upload.resp.body.message = <<"product id is required">>)
        /\ ~s3_client => upload.resp = ConfigurationError

\* C6 witness: with an S3 client, a call with an empty product identifier and
\* an otherwise acceptable file was refused after an earlier call had stored an
\* object.
C6_Witness ==
    /\ upload # None
    /\ s3_client
    /\ upload.request.product_id = ""
    /\ ExtAllowed /\ SizeAllowed
    /\ upload.resp.body.success = FALSE
    /\ s3_objects # {}

\* C7: for a call with a product identifier the checks apply in the order
\* storage, extension (case-insensitive), size; the answer reports the first
\* that fails, and put_object runs only when all three pass.
C7_CheckOrder ==
    (upload # None /\ upload.request.product_id # "") =>
        /\ ~s3_client => upload.resp = ConfigurationError
        /\ (s3_client /\ ~ExtAllowed) =>
              (UploadRefused /\ upload.resp.body.message = FormatError)
        /\ (s3_client /\ ExtAllowed /\ ~SizeAllowed) =>
              (UploadRefused /\ upload.resp.body.message = SizeError)
        /\ upload.puts = (IF s3_client /\ ExtAllowed /\ SizeAllowed THEN 1 ELSE 0)
        /\ (s3_client /\ upload.request.filename = <<"b", ".", "b", "m", "p">>) =>
              upload.resp.body.message = FormatError
        /\ (s3_client /\ SizeAllowed
              /\ upload.request.filename = <<"A", ".", "J", "P", "G">>) =>
              upload.puts = 1

\* C7 witness: a .bmp file over the size limit was refused with the format
\* error, not the size error.
C7_Witness ==
    /\ upload # None
    /\ s3_client
    /\ upload.request.product_id = "p1"
    /\ upload.request.filename = <<"b", ".", "b", "m", "p">>
    /\ upload.request.size > 10 * 1024 * 1024
    /\ upload.resp.body.message = FormatError

\* The latest call passed the first two checks.
UploadAdmissible ==
    /\ upload # None
    /\ s3_client
    /\ upload.request.product_id # ""
    /\ ExtAllowed

\* The URL of the object reviews/<product identifier>/<name><ext>.
UrlOf(product_id, name, ext) ==
    <<"https://", "bucket", ".s3.", "ap-northeast-2", ".amazonaws.com/",
      <<"reviews/", product_id, "/", name, ext>> >>

\* C8 as claimed: an admissible upload within the size limit whose put
\* succeeds returns success=true and the URL of the key
\* reviews/<product identifier>/<generated name><original extension>; one over
\* the limit gets the size error and no write.
C8_UploadUrlOriginalExt ==
    UploadAdmissible =>
        /\ (SizeAllowed /\ upload.put_error = None) =>
              /\ upload.resp.body.success = TRUE
              /\ upload.resp.body.url =
                    <<UrlOf(upload.request.product_id, <<"uuid", uuids>>,
                            splitext_ext(upload.request.filename))>>
        /\ ~SizeAllowed =>
              (UploadRefused /\ upload.resp.body.message = SizeError /\ upload.puts = 0)

\* C8 as amended: the key ends in the lower-cased extension of the original
\* file name; the object is stored under that key in the bucket.
C8_UploadUrlLowerExt ==
    UploadAdmissible =>
        /\ (SizeAllowed /\ upload.put_error = None) =>
              /\ upload.resp.status = 200
              /\ upload.resp.body.success = TRUE
              /\ upload.resp.body.url =
                    <<UrlOf(upload.request.product_id, <<"uuid", uuids>>, UploadExt)>>
              /\ \E o \in s3_objects :
                    /\ o.Bucket = "bucket"
                    /\ o.Key = <<"reviews/", upload.request.product_id, "/",
                                 <<"uuid", uuids>>, UploadExt>>
                    /\ o.Body = upload.request.size
        /\ ~SizeAllowed =>
              (UploadRefused /\ upload.resp.body.message = SizeError /\ upload.puts = 0)

\* C8 witness: A.JPG of exactly 10 MiB was stored and its URL ends in .jpg,
\* after an earlier upload had taken the first generated name.
C8_Witness ==
    /\ UploadAdmissible
    /\ upload.request.filename = <<"A", ".", "J", "P", "G">>
    /\ upload.request.size = 10 * 1024 * 1024
    /\ upload.resp.body.success = TRUE
    /\ upload.resp.body.url[1][6][5] = <<".", "j", "p", "g">>
    /\ Cardinality(s3_objects) = 2

\* C9: a failure of put_object is caught: the answer is HTTP 200 with
\* success=false, no url and a message that embeds the error text; nothing is
\* stored for the call, and put_object was tried once.
C9_PutFailureCaught ==
    (upload # None /\ upload.put_error # None) =>
        /\ upload.resp.status = 200
        /\ upload.resp.body.success = FALSE
        /\ upload.resp.body.url = None
        /\ upload.resp.body.message = <<"upload failed: ", upload.put_error[1]>>
        /\ upload.puts = 1
        /\ \A o \in s3_objects : o.Key # upload.key[1]

\* C9 witness: put_object raised AccessDenied on an otherwise acceptable
\* upload.
C9_Witness ==
    /\ UploadAdmissible
    /\ SizeAllowed
    /\ upload.put_error = <<"AccessDenied">>
    /\ upload.resp.body.message = <<"upload failed: ", "AccessDenied">>

-----------------------------------------------------------------------------
(* Properties of both endpoints *)

\* The latest upload_image call carries a validation error: no product
\* identifier, a disallowed extension, or a file over the size limit.
UploadInvalid ==
    /\ upload # None
    /\ (upload.request.product_id = "" \/ ~ExtAllowed \/ ~SizeAllowed)

\* C4 as claimed: every validation error on either endpoint is answered HTTP
\* 200 with success=false and a message (leaving the configuration error of
\* upload_image aside).
C4_ValidationErrorsAre200 ==
    /\ \A h \in Answered :
         (BadBody(review_reqs[h].body) \/ review_reqs[h].body.productId = None) =>
            /\ review_reqs[h].resp.status = 200
            /\ "success" \in DOMAIN review_reqs[h].resp.body
            /\ review_reqs[h].resp.body.success = FALSE
    /\ (UploadInvalid /\ s3_client) =>
         /\ upload.resp.status = 200
         /\ "success" \in DOMAIN upload.resp.body
         /\ upload.resp.body.success = FALSE

\* C4 as amended: a validation error that upload_image finds with storage
\* configured is answered HTTP 200 with success=false and a message; a body
\* that fails ReviewCreate is answered by the framework with HTTP 422, naming
\* the fields in error and carrying no success flag.
C4_ValidationErrorsByEndpoint ==
    /\ \A h \in DOMAIN review_reqs :
         (BadBody(review_reqs[h].body) \/ review_reqs[h].body.productId = None) =>
            /\ review_reqs[h].pc = "done"
            /\ review_reqs[h].resp.status = 422
            /\ "success" \notin DOMAIN review_reqs[h].resp.body
            /\ review_reqs[h].resp.body.detail # {}
    /\ (UploadInvalid /\ s3_client) =>
         /\ UploadRefused
         /\ upload.puts = 0

\* C4 witness: a review with an empty productId was answered 422 and an upload
\* of a .bmp file was answered 200 with success=false.
C4_Witness ==
    /\ \E h \in Answered :
         review_reqs[h].body.productId = <<"">> /\ review_reqs[h].resp.status = 422
    /\ upload # None
    /\ s3_client
    /\ upload.request.product_id = "p1"
    /\ upload.request.filename = <<"b", ".", "b", "m", "p">>
    /\ upload.resp.status = 200
    /\ upload.resp.body.success = FALSE

====
